---- MODULE Spec2Model ----
(***************************************************************************)
(* Model of onenote_export/parser/one_store.py: OneStoreParser.parse's     *)
(* conversion loop, OneStoreParser._build_pages and the helpers            *)
(* _extract_guid, _clean_text and _parse_int.                              *)
(*                                                                         *)
(* A Python str is a sequence of one-character strings ("NUL" stands for   *)
(* the character \x00).  A Python value is a record tagged by its type.    *)
(* A Python dict the code iterates over is a sequence of [k, v] entries in *)
(* insertion order; the properties dict of an object, which the code only  *)
(* reads with .get, is a function from property names to values.           *)
(* An ExtractedObject held in a list is the index of the object in         *)
(* all_objects (Python lists hold references); all_objects itself holds,   *)
(* for each object, the number of the raw property set it was built from.  *)
(***************************************************************************)
EXTENDS Integers, Sequences, FiniteSets, TLC

VARIABLES
    pc,              \* position in parse / _build_pages
    mode,            \* which input family the run draws from
    all_objects,     \* parse: the ExtractedObjects converted so far
    guid_objects,    \* _build_pages: dict guid -> list of objects
    page_metas,      \* _build_pages: list of jcidPageMetaData objects
    page_node_guids, \* _build_pages: list of guids owning a jcidPageNode
    meta_by_guid,    \* _build_pages: dict guid -> page metadata
    orphan_metas,    \* _build_pages: dict guid -> orphan page metadata
    seen_titles,     \* _build_pages: dict dedup key -> index into pages
    pages,           \* _build_pages: the page list built and returned
    cursor,          \* index into page_node_guids of the next content_guid
    trail,           \* history: one entry per finished loop iteration
    identity_str,    \* _extract_guid: the argument
    guid_result      \* _extract_guid: the value returned

vars == << pc, mode, all_objects, guid_objects, page_metas, page_node_guids,
           meta_by_guid, orphan_metas, seen_titles, pages, cursor, trail,
           identity_str, guid_result >>

-----------------------------------------------------------------------------
(* JCID type names *)

_PAGE_META == "jcidPageMetaData"
_SECTION_META == "jcidSectionMetaData"
_PAGE_NODE == "jcidPageNode"
_TITLE_NODE == "jcidTitleNode"
_OUTLINE_NODE == "jcidOutlineNode"
_OUTLINE_ELEMENT == "jcidOutlineElementNode"
_RICH_TEXT == "jcidRichTextOENode"
_IMAGE_NODE == "jcidImageNode"
_TABLE_NODE == "jcidTableNode"
_TABLE_ROW == "jcidTableRowNode"
_TABLE_CELL == "jcidTableCellNode"
_EMBEDDED_FILE == "jcidEmbeddedFileNode"
_NUMBER_LIST == "jcidNumberListNode"

_CONTENT_TYPES ==
    { _RICH_TEXT, _IMAGE_NODE, _TABLE_NODE, _TABLE_ROW, _TABLE_CELL,
      _EMBEDDED_FILE, _OUTLINE_ELEMENT, _OUTLINE_NODE, _NUMBER_LIST }

-----------------------------------------------------------------------------
(* Python str operations *)

Whitespace == { " ", "\t", "\n" }

Digits == << "0", "1", "2", "3", "4", "5", "6", "7", "8", "9" >>

IsDigit(c) == \E d \in 1..10 : Digits[d] = c

DigitValue(c) == (CHOOSE d \in 1..10 : Digits[d] = c) - 1

\* the lower-case form of each upper-case letter
LowerMap ==
    "A" :> "a" @@ "B" :> "b" @@ "C" :> "c" @@ "D" :> "d" @@ "E" :> "e"
    @@ "F" :> "f" @@ "G" :> "g" @@ "H" :> "h" @@ "I" :> "i" @@ "J" :> "j"
    @@ "K" :> "k" @@ "L" :> "l" @@ "M" :> "m" @@ "N" :> "n" @@ "O" :> "o"
    @@ "P" :> "p" @@ "Q" :> "q" @@ "R" :> "r" @@ "S" :> "s" @@ "T" :> "t"
    @@ "U" :> "u" @@ "V" :> "v" @@ "W" :> "w" @@ "X" :> "x" @@ "Y" :> "y"
    @@ "Z" :> "z"

LowerChar(c) == IF c \in DOMAIN LowerMap THEN LowerMap[c] ELSE c

RECURSIVE Lower(_)
\* str.lower()
Lower(s) ==
    IF s = << >> THEN << >> ELSE << LowerChar(Head(s)) >> \o Lower(Tail(s))

RECURSIVE LStrip(_)
\* str.lstrip(): drop the leading whitespace
LStrip(s) ==
    IF s # << >> /\ Head(s) \in Whitespace THEN LStrip(Tail(s)) ELSE s

RECURSIVE RStrip(_)
\* str.rstrip(): drop the trailing whitespace
RStrip(s) ==
    IF s # << >> /\ s[Len(s)] \in Whitespace
    THEN RStrip(SubSeq(s, 1, Len(s) - 1))
    ELSE s

\* str.strip(): drop the leading and the trailing whitespace
Strip(s) == RStrip(LStrip(s))

\* str.replace("\x00", "")
RemoveNul(s) == SelectSeq(s, LAMBDA c : c # "NUL")

\* one_store.py _clean_text
_clean_text(text) == Strip(RemoveNul(text))

-----------------------------------------------------------------------------
(* one_store.py _extract_guid: re.search(r"\(([^,]+),", identity_str) *)

\* the pattern matches at position n: "(" at n, then one or more characters
\* other than "," and then a ","
MatchesAt(s, n) ==
    /\ s[n] = "("
    /\ n + 1 <= Len(s)
    /\ s[n + 1] # ","
    /\ \E j \in (n + 2)..Len(s) : s[j] = ","

\* group 1 of the match at n: [^,]+ runs up to the first "," after n
Group1(s, n) ==
    LET j == CHOOSE c \in (n + 2)..Len(s) :
                 /\ s[c] = ","
                 /\ \A b \in (n + 2)..(c - 1) : s[b] # ","
    IN  SubSeq(s, n + 1, j - 1)

\* faulty variant of _extract_guid: the match is returned without .strip()
_extract_guid_unstripped(s) ==
    LET hits == { n \in 1..Len(s) : MatchesAt(s, n) }
    IN  IF hits = {} THEN << >>
        ELSE Group1(s, CHOOSE n \in hits : \A m \in hits : n <= m)

_extract_guid(s) ==
    LET hits == { n \in 1..Len(s) : MatchesAt(s, n) }
    IN  IF hits = {} THEN << >>
        ELSE Strip(Group1(s, CHOOSE n \in hits : \A m \in hits : n <= m))

-----------------------------------------------------------------------------
(* Python values: [type |-> "int", val |-> n], [type |-> "bytes", val |->  *)
(* sequence of 0..255], [type |-> "str", val |-> str], [type |->           *)
(* "NoneType"], [type |-> "float", val |-> n] (the float n.0)              *)

PyInt(n) == [type |-> "int", val |-> n]
PyStr(s) == [type |-> "str", val |-> s]
PyBytes(b) == [type |-> "bytes", val |-> b]
PyNone == [type |-> "NoneType"]

RECURSIVE FromBytesLittle(_)
\* int.from_bytes(b, "little")
FromBytesLittle(b) ==
    IF b = << >> THEN 0 ELSE Head(b) + 256 * FromBytesLittle(Tail(b))

RECURSIVE IntOfDigits(_)
\* int() of a run of decimal digits
IntOfDigits(s) ==
    IF s = << >> THEN 0
    ELSE 10 * IntOfDigits(SubSeq(s, 1, Len(s) - 1)) + DigitValue(s[Len(s)])

\* re.search(r"\d+", s).group(): the first maximal run of digits
FirstDigitRun(s) ==
    LET ds    == { n \in 1..Len(s) : IsDigit(s[n]) }
        first == CHOOSE n \in ds : \A m \in ds : n <= m
        stop  == { n \in first..Len(s) : ~IsDigit(s[n]) }
        last  == IF stop = {} THEN Len(s)
                 ELSE (CHOOSE n \in stop : \A m \in stop : n <= m) - 1
    IN  SubSeq(s, first, last)

\* faulty variant of _parse_int: the digits of a string are read with their sign,
\* as re.search(r"-?\d+", value) would
_parse_int_signed_str(value) ==
    IF value.type = "int" THEN value.val
    ELSE IF value.type = "bytes"
         THEN FromBytesLittle(SubSeq(value.val, 1,
                  IF Len(value.val) < 4 THEN Len(value.val) ELSE 4))
    ELSE IF value.type = "str"
         THEN IF \E n \in 1..Len(value.val) : IsDigit(value.val[n])
              THEN LET first == CHOOSE n \in 1..Len(value.val) :
                                    /\ IsDigit(value.val[n])
                                    /\ \A m \in 1..(n - 1) : ~IsDigit(value.val[m])
                   IN  IF first > 1 /\ value.val[first - 1] = "-"
                       THEN 0 - IntOfDigits(FirstDigitRun(value.val))
                       ELSE IntOfDigits(FirstDigitRun(value.val))
              ELSE 0
    ELSE 0

\* one_store.py _parse_int
_parse_int(value) ==
    IF value.type = "int" THEN value.val
    ELSE IF value.type = "bytes"
         THEN FromBytesLittle(SubSeq(value.val, 1,
                  IF Len(value.val) < 4 THEN Len(value.val) ELSE 4))
    ELSE IF value.type = "str"
         THEN IF \E n \in 1..Len(value.val) : IsDigit(value.val[n])
              THEN IntOfDigits(FirstDigitRun(value.val))
              ELSE 0
    ELSE 0

\* str(value), for the values the title, author and timestamp properties of
\* the inputs hold: a str or None
Str(value) ==
    CASE value.type = "str" -> value.val
      [] value.type = "NoneType" -> << "N", "o", "n", "e" >>

-----------------------------------------------------------------------------
(* Python dict: entries [k, v] in insertion order, keys unique *)

DictHas(d, key) == \E n \in 1..Len(d) : d[n].k = key

DictGet(d, key) == d[CHOOSE n \in 1..Len(d) : d[n].k = key].v

\* d[key] = value: an existing key keeps its position
DictSet(d, key, value) ==
    IF DictHas(d, key)
    THEN [n \in 1..Len(d) |-> IF d[n].k = key THEN [k |-> key, v |-> value]
                                              ELSE d[n]]
    ELSE Append(d, [k |-> key, v |-> value])

\* properties.get(name, default)
PropGet(properties, name, default) ==
    IF name \in DOMAIN properties THEN properties[name] ELSE default

-----------------------------------------------------------------------------
(* The raw property sets pyOneNote hands to parse: four bounded families.  *)
(* "pages": pages A and B, metadata of A, B and C, content of A.           *)
(* "content": pages A and "" (a malformed identity), content of both, a    *)
(* record that is no content, metadata of A and an orphan with no title.   *)
(* "levels": one page A and metadata with every kind of PageLevel.         *)
(* "order": pages C, B, A, metadata of C and A with titles that differ in  *)
(* case and blanks only, content of A and of C; an input of this family    *)
(* holds each of its records at most once, in any order.                   *)

MaxRecords == 5
MaxContentRecords == 4
MaxLevelRecords == 3

IdA == << "(", "A", ",", "1", ")" >>
IdASpaced == << "<", "E", ">", " ", "(", " ", "A", " ", ",", "2", ")" >>
IdAPrefixed == << "x", "(", "A", ",", " ", "3", ")" >>
IdB == << "(", "B", ",", "1", ")" >>
IdBSpaced == << "(", "B", " ", ",", " ", "7", ")" >>
IdC == << "(", "C", ",", "1", ")" >>
IdCSpaced == << "(", " ", "C", ",", "4", ")" >>
IdMalformed == << "(", "n", "o", "-", "c", "o", "m", "m", "a", ")" >>

Raw(type, identity, val) == [type |-> type, identity |-> identity, val |-> val]

Meta(identity, title, level, creation) ==
    Raw(_PAGE_META, identity,
        ("CachedTitleString" :> PyStr(title)) @@ ("PageLevel" :> level)
        @@ ("TopologyCreationTimeStamp" :> PyStr(creation)))

Node(identity, author, modified) ==
    Raw(_PAGE_NODE, identity,
        ("Author" :> PyStr(author)) @@ ("LastModifiedTime" :> PyStr(modified)))

RawPages ==
    << Node(IdA, << "a", "l", "NUL" >>, << "m", "1" >>),
       Node(IdB, << " ", "b", "o" >>, << "m", "2" >>),
       Meta(IdASpaced, << "A", "b" >>, PyInt(1), << "c", "1" >>),
       Meta(IdBSpaced, << "U", "N", "T", "I", "T", "L", "E", "D", "NUL", " " >>,
            PyInt(-1), << "c", "2" >>),
       Meta(IdCSpaced, << " ", "a", "B", "NUL" >>, PyBytes(<< 2, 1 >>), << "c", "3" >>),
       Raw(_RICH_TEXT, IdAPrefixed, << >>) >>

RawContent ==
    << Node(IdA, << "a", "l" >>, << "m", "1" >>),
       Raw(_PAGE_NODE, IdMalformed, << >>),
       Raw(_TABLE_NODE, IdMalformed, << >>),
       Raw(_TITLE_NODE, IdA, << >>),
       Raw(_OUTLINE_ELEMENT, IdAPrefixed, << >>),
       Meta(IdASpaced, << "a", "b" >>, PyInt(2), << "c", "1" >>),
       Raw(_PAGE_META, IdB, ("CachedTitleString" :> PyStr(<< "NUL", " " >>))) >>

RawLevels ==
    << Node(IdA, << "a", "l" >>, << "m", "1" >>),
       Raw(_PAGE_META, IdA, ("PageLevel" :> PyNone)),
       Raw(_PAGE_META, IdA, ("CachedTitleString" :> PyStr(<< "a" >>))),
       Meta(IdA, << "a", "b" >>, PyInt(-2), << >>),
       Meta(IdA, << "a", "b" >>, PyInt(3), << >>),
       Meta(IdA, << "a", "b" >>, PyBytes(<< >>), << >>),
       Meta(IdA, << "a", "b" >>, PyBytes(<< 1, 0, 0, 0, 7 >>), << >>),
       Meta(IdA, << "a", "b" >>, PyBytes(<< 255, 255, 255, 127 >>), << >>),
       Meta(IdA, << "a", "b" >>,
            PyStr(<< "l", "v", "-", "1", "2", " ", "3" >>), << >>),
       Meta(IdA, << "a", "b" >>, PyStr(<< "n", "o", "n", "e" >>), << >>),
       Meta(IdA, << "a", "b" >>, [type |-> "float", val |-> -1], << >>) >>

RawOrder ==
    << Raw(_PAGE_NODE, IdC, << >>),
       Node(IdB, << " ", "b", "o" >>, << "m", "2" >>),
       Node(IdA, << "a", "l", "NUL" >>, << "m", "1" >>),
       Meta(IdCSpaced, << " ", "a", "B", "NUL" >>, PyBytes(<< 2, 1 >>), << "c", "3" >>),
       Meta(IdASpaced, << "A", "b" >>, PyInt(1), << "c", "1" >>),
       Raw(_RICH_TEXT, IdAPrefixed, << >>),
       Raw(_IMAGE_NODE, IdCSpaced, << >>) >>

Modes == { "pages", "content", "levels", "order" }

\* how many raw property sets the family of the run holds
RawCount ==
    CASE mode = "pages" -> Len(RawPages)
      [] mode = "content" -> Len(RawContent)
      [] mode = "levels" -> Len(RawLevels)
      [] mode = "order" -> Len(RawOrder)

\* how many records an input of the family of the run holds at most
Limit ==
    CASE mode = "pages" -> MaxRecords
      [] mode = "content" -> MaxContentRecords
      [] mode = "levels" -> MaxLevelRecords
      [] mode = "order" -> Len(RawOrder)

\* the raw property set numbered raw may be the next record of the input
MayFollow(raw) ==
    mode = "order" => \A n \in 1..Len(all_objects) : all_objects[n] # raw

-----------------------------------------------------------------------------
(* OneStoreParser.parse: the conversion loop and the call of _build_pages  *)

ExtractedObject(raw) ==
    [obj_type |-> raw.type, identity |-> raw.identity, properties |-> raw.val]

ExtractedPage(title, level, author, creation_time, last_modified, objects) ==
    [title |-> title, level |-> level, author |-> author,
     creation_time |-> creation_time, last_modified |-> last_modified,
     objects |-> objects]

RECURSIVE ObjectsOf(_)
\* the ExtractedObjects parse builds from a sequence of raw property sets
ObjectsOf(raws) ==
    IF raws = << >> THEN << >>
    ELSE << ExtractedObject(Head(raws)) >> \o ObjectsOf(Tail(raws))

RECURSIVE GuidsOf(_)
\* _extract_guid of the identity of each object of a sequence
GuidsOf(objs) ==
    IF objs = << >> THEN << >>
    ELSE << _extract_guid(Head(objs).identity) >> \o GuidsOf(Tail(objs))

PagesObjects == ObjectsOf(RawPages)
ContentObjects == ObjectsOf(RawContent)
LevelsObjects == ObjectsOf(RawLevels)
OrderObjects == ObjectsOf(RawOrder)

PagesGuids == GuidsOf(PagesObjects)
ContentGuids == GuidsOf(ContentObjects)
LevelsGuids == GuidsOf(LevelsObjects)
OrderGuids == GuidsOf(OrderObjects)

\* the object at index n of all_objects
Object(n) ==
    CASE mode = "pages" -> PagesObjects[all_objects[n]]
      [] mode = "content" -> ContentObjects[all_objects[n]]
      [] mode = "levels" -> LevelsObjects[all_objects[n]]
      [] mode = "order" -> OrderObjects[all_objects[n]]

\* _extract_guid(obj.identity), for the object at index n
GuidOf(n) ==
    CASE mode = "pages" -> PagesGuids[all_objects[n]]
      [] mode = "content" -> ContentGuids[all_objects[n]]
      [] mode = "levels" -> LevelsGuids[all_objects[n]]
      [] mode = "order" -> OrderGuids[all_objects[n]]

TypeOf(n) == Object(n).obj_type

\* for raw in raw_props: all_objects.append(ExtractedObject(...))
ParseAppend ==
    /\ pc = "parse"
    /\ Len(all_objects) < Limit
    /\ \E raw \in 1..RawCount :
           /\ MayFollow(raw)
           /\ all_objects' = Append(all_objects, raw)
    /\ UNCHANGED << pc, mode, guid_objects, page_metas, page_node_guids,
                    meta_by_guid, orphan_metas, seen_titles, pages, cursor,
                    trail, identity_str, guid_result >>

-----------------------------------------------------------------------------
(* OneStoreParser._build_pages *)

RECURSIVE GroupByGuid(_, _)
\* guid_objects from object n on: setdefault(guid, []).append(obj)
GroupByGuid(d, n) ==
    IF n > Len(all_objects) THEN d
    ELSE LET guid == GuidOf(n)
         IN  GroupByGuid(
                 DictSet(d, guid,
                         IF DictHas(d, guid) THEN Append(DictGet(d, guid), n)
                         ELSE << n >>),
                 n + 1)

RECURSIVE NodeGuidsNewestFirst(_, _)
\* faulty variant of NodeGuids: page_node_guids.insert(0, guid)
NodeGuidsNewestFirst(acc, n) ==
    IF n > Len(all_objects) THEN acc
    ELSE NodeGuidsNewestFirst(
             IF /\ TypeOf(n) = _PAGE_NODE
                /\ \A m \in 1..Len(acc) : acc[m] # GuidOf(n)
             THEN << GuidOf(n) >> \o acc
             ELSE acc,
             n + 1)

RECURSIVE NodeGuids(_, _)
\* page_node_guids: the guids of the jcidPageNode objects, first seen first
NodeGuids(acc, n) ==
    IF n > Len(all_objects) THEN acc
    ELSE NodeGuids(
             IF /\ TypeOf(n) = _PAGE_NODE
                /\ \A m \in 1..Len(acc) : acc[m] # GuidOf(n)
             THEN Append(acc, GuidOf(n))
             ELSE acc,
             n + 1)

Indices == [n \in 1..Len(all_objects) |-> n]

\* page_metas: the jcidPageMetaData objects, in input order
PageMetas == SelectSeq(Indices, LAMBDA n : TypeOf(n) = _PAGE_META)

\* faulty variant of IsContent: every object that is no page metadata counts
IsNotPageMeta(n) == TypeOf(n) # _PAGE_META

\* o.obj_type in the nine content types
IsContent(n) == TypeOf(n) \in _CONTENT_TYPES

\* ExtractedPage(objects=all_content): the dataclass defaults
DefaultPage(objects) == ExtractedPage(<< >>, 0, << >>, << >>, << >>, objects)

\* the call with no page metadata at all: classification, then a single
\* unnamed page (or none) is returned
NoPageMetas ==
    /\ pc = "parse"
    /\ PageMetas = << >>
    /\ guid_objects' = GroupByGuid(<< >>, 1)
    /\ page_metas' = PageMetas
    /\ page_node_guids' = NodeGuids(<< >>, 1)
    /\ LET all_content == SelectSeq(Indices, IsContent)
       IN  pages' = IF all_content # << >>
                    THEN Append(pages, DefaultPage(all_content))
                    ELSE pages
    /\ pc' = "done"
    /\ UNCHANGED << mode, all_objects, meta_by_guid, orphan_metas,
                    seen_titles, cursor, trail, identity_str, guid_result >>

RECURSIVE MetaLookup(_, _)
\* meta_by_guid: later entries overwrite earlier ones
MetaLookup(d, n) ==
    IF n > Len(page_metas') THEN d
    ELSE MetaLookup(DictSet(d, GuidOf(page_metas'[n]), page_metas'[n]), n + 1)

\* g not in page_node_guids, for an entry of meta_by_guid
IsOrphan(node_guids, entry) ==
    \A m \in 1..Len(node_guids) : node_guids[m] # entry.k

\* the call with page metadata: classification, the metadata lookup and the
\* orphan pool; the loop over page_node_guids follows
BuildLookup ==
    /\ pc = "parse"
    /\ PageMetas # << >>
    /\ guid_objects' = GroupByGuid(<< >>, 1)
    /\ page_metas' = PageMetas
    /\ page_node_guids' = NodeGuids(<< >>, 1)
    /\ meta_by_guid' = MetaLookup(<< >>, 1)
    /\ orphan_metas' =
           SelectSeq(meta_by_guid', LAMBDA e : IsOrphan(page_node_guids', e))
    /\ cursor' = 1
    /\ pc' = IF page_node_guids' = << >> THEN "done" ELSE "loop"
    /\ UNCHANGED << mode, all_objects, seen_titles, pages, trail,
                    identity_str, guid_result >>

\* the sentinel of line 236
Untitled == << "U", "n", "t", "i", "t", "l", "e", "d" >>

\* faulty variant of PageTitle: the title is stored as resolved, without the
\* sentinel
PageTitleUnresolved(title) == title

\* title or "Untitled"
PageTitle(title) == IF title # << >> THEN title ELSE Untitled

\* key = title.lower().strip()
DedupKey(title) == Strip(Lower(title))

\* len(content) > len(pages[idx].objects)
HasMoreContent(content, stored) == Len(content) > Len(stored.objects)

\* faulty variant of ContentOf: [o for o in objects if ...], the content of every guid
ContentOfAll(objs) == SelectSeq(Indices, IsContent)

\* [o for o in objs if o.obj_type in _CONTENT_TYPES]
ContentOf(objs) == SelectSeq(objs, IsContent)

\* meta_by_guid.get(content_guid), else the first orphan left; 0 is None
FindMeta(content_guid) ==
    IF DictHas(meta_by_guid, content_guid)
    THEN DictGet(meta_by_guid, content_guid)
    ELSE IF orphan_metas # << >> THEN orphan_metas[1].v ELSE 0

\* faulty variant of OrphansAfter: the orphan taken is not deleted
OrphansKept(content_guid) == orphan_metas

\* del orphan_metas[og], when the orphan loop ran
OrphansAfter(content_guid) ==
    IF ~DictHas(meta_by_guid, content_guid) /\ orphan_metas # << >>
    THEN Tail(orphan_metas)
    ELSE orphan_metas

MetaTitle(meta) ==
    IF meta # 0
    THEN _clean_text(Str(PropGet(Object(meta).properties,
                                 "CachedTitleString", PyStr(<< >>))))
    ELSE << >>

MetaLevel(meta) ==
    IF meta # 0
    THEN _parse_int(PropGet(Object(meta).properties, "PageLevel", PyInt(0)))
    ELSE 0

MetaCreation(meta) ==
    IF meta # 0
    THEN Str(PropGet(Object(meta).properties,
                     "TopologyCreationTimeStamp", PyStr(<< >>)))
    ELSE << >>

\* the first jcidPageNode among objs; 0 when there is none
FirstPageNode(objs) ==
    LET at == { n \in 1..Len(objs) : TypeOf(objs[n]) = _PAGE_NODE }
    IN  IF at = {} THEN 0
        ELSE objs[CHOOSE n \in at : \A m \in at : n <= m]

NodeAuthor(node) ==
    IF node # 0
    THEN _clean_text(Str(PropGet(Object(node).properties,
                                 "Author", PyStr(<< >>))))
    ELSE << >>

NodeLastModified(node) ==
    IF node # 0
    THEN Str(PropGet(Object(node).properties,
                     "LastModifiedTime", PyStr(<< >>)))
    ELSE << >>

\* the page one iteration of the loop assembles from the objects of
\* content_guid, the metadata found for it and its cleaned title
AssemblePage(objs, meta, title) ==
    LET node == FirstPageNode(objs)
    IN  ExtractedPage(PageTitle(title), MetaLevel(meta), NodeAuthor(node),
                      MetaCreation(meta), NodeLastModified(node),
                      ContentOf(objs))

\* one iteration of: for content_guid in page_node_guids
BuildPage ==
    /\ pc = "loop"
    /\ cursor <= Len(page_node_guids)
    /\ LET content_guid == page_node_guids[cursor]
           objs  == IF DictHas(guid_objects, content_guid)
                    THEN DictGet(guid_objects, content_guid)
                    ELSE << >>
           meta  == FindMeta(content_guid)
           title == MetaTitle(meta)
           page  == AssemblePage(objs, meta, title)
           key   == DedupKey(title)
           hit   == DictHas(seen_titles, key)
           idx   == IF hit THEN DictGet(seen_titles, key) ELSE Len(pages) + 1
           kept  == ~hit \/ HasMoreContent(page.objects, pages[idx])
       IN  /\ orphan_metas' = OrphansAfter(content_guid)
           /\ pages' = IF ~hit THEN Append(pages, page)
                       ELSE IF kept THEN [pages EXCEPT ![idx] = page]
                       ELSE pages
           /\ seen_titles' = IF hit THEN seen_titles
                             ELSE DictSet(seen_titles, key, idx)
           /\ trail' = Append(trail,
                          [guid |-> content_guid, meta |-> meta,
                           pool |-> orphan_metas, title |-> title,
                           page |-> page, idx |-> idx, kept |-> kept])
    /\ cursor' = cursor + 1
    /\ pc' = IF cursor' > Len(page_node_guids) THEN "done" ELSE "loop"
    /\ UNCHANGED << mode, all_objects, guid_objects, page_metas,
                    page_node_guids, meta_by_guid, identity_str, guid_result >>

-----------------------------------------------------------------------------
(* Specification of parse / _build_pages over the four input families *)

Init ==
    /\ pc = "parse"
    /\ mode \in Modes
    /\ all_objects = << >>
    /\ guid_objects = << >>
    /\ page_metas = << >>
    /\ page_node_guids = << >>
    /\ meta_by_guid = << >>
    /\ orphan_metas = << >>
    /\ seen_titles = << >>
    /\ pages = << >>
    /\ cursor = 1
    /\ trail = << >>
    /\ identity_str = << >>
    /\ guid_result = << >>

Next ==
    \/ ParseAppend
    \/ NoPageMetas
    \/ BuildLookup
    \/ BuildPage

Spec == Init /\ [][Next]_vars

-----------------------------------------------------------------------------
(* Specification of _extract_guid alone: every identity string of at most  *)
(* MaxIdentityLen characters over IdentityChars, and the identities of the *)
(* unit tests' shapes used above                                           *)

MaxIdentityLen == 5

IdentityChars == { "(", ",", " ", "k", ")" }

IdentityStrings ==
    UNION { [1..n -> IdentityChars] : n \in 0..MaxIdentityLen }

InitGuid ==
    /\ pc = "guid_call"
    /\ mode = "guid"
    /\ identity_str \in IdentityStrings
           \cup { IdA, IdASpaced, IdAPrefixed, IdBSpaced, IdCSpaced, IdMalformed }
    /\ guid_result = << >>
    /\ all_objects = << >>
    /\ guid_objects = << >>
    /\ page_metas = << >>
    /\ page_node_guids = << >>
    /\ meta_by_guid = << >>
    /\ orphan_metas = << >>
    /\ seen_titles = << >>
    /\ pages = << >>
    /\ cursor = 1
    /\ trail = << >>

\* guid = _extract_guid(identity_str)
ExtractGuid ==
    /\ pc = "guid_call"
    /\ guid_result' = _extract_guid(identity_str)
    /\ pc' = "guid_done"
    /\ UNCHANGED << mode, all_objects, guid_objects, page_metas,
                    page_node_guids, meta_by_guid, orphan_metas, seen_titles,
                    pages, cursor, trail, identity_str >>

NextGuid == ExtractGuid

SpecGuid == InitGuid /\ [][NextGuid]_vars

-----------------------------------------------------------------------------
(* Claims about _extract_guid *)

\* the least element of a non-empty set of integers
Least(S) == CHOOSE n \in S : \A m \in S : n <= m

\* the greatest element of a non-empty set of integers
Greatest(S) == CHOOSE n \in S : \A m \in S : m <= n

\* the text between position p and the first "," after p, trimmed; empty
\* when no "," follows p
TrimmedUpToComma(s, p) ==
    LET commas == { n \in (p + 1)..Len(s) : s[n] = "," }
    IN  IF commas = {} THEN << >>
        ELSE Strip(SubSeq(s, p + 1, Least(commas) - 1))

\* C10 as stated: the text between the first "(" and the first "," after it
FirstParenGuid(s) ==
    LET parens == { n \in 1..Len(s) : s[n] = "(" }
    IN  IF parens = {} THEN << >> ELSE TrimmedUpToComma(s, Least(parens))

\* C10 (as stated; refuted): _extract_guid returns the trimmed text between
\* the first opening parenthesis and the first comma that follows it, and
\* the empty string when there is no such parenthesis or comma.
C10_FirstParen ==
    pc = "guid_done" => guid_result = FirstParenGuid(identity_str)

\* the text after the first "(" that is directly followed by a character
\* other than ","
FirstKeyedParenGuid(s) ==
    LET parens == { n \in 1..(Len(s) - 1) : s[n] = "(" /\ s[n + 1] # "," }
    IN  IF parens = {} THEN << >> ELSE TrimmedUpToComma(s, Least(parens))

\* C10 (amended): _extract_guid returns the trimmed text between the first
\* opening parenthesis that is directly followed by a character other than a
\* comma and the first comma after that parenthesis, and the empty string
\* when the string has no such parenthesis or no comma after it.
C10_FirstKeyedParen ==
    pc = "guid_done" => guid_result = FirstKeyedParenGuid(identity_str)

\* C10 witness: a "(" directly followed by "," was skipped and a later "("
\* gave a non-empty key, padded by whitespace that was trimmed
C10_Witness ==
    /\ pc = "guid_done"
    /\ guid_result = << "k" >>
    /\ identity_str = << "(", ",", "(", "k", "," >>

\* C10 witness of the trimming: the key came out of " ( A ,2)"
C10_WitnessTrim ==
    /\ pc = "guid_done"
    /\ identity_str = IdASpaced
    /\ guid_result = << "A" >>

-----------------------------------------------------------------------------
(* Claims about _build_pages: vocabulary *)

Done == pc = "done"

\* the per-key path ran (the input holds page metadata)
PerKey == page_metas # << >>

Keys == 1..Len(trail)

Slots == 1..Len(pages)

\* a title after lower-casing and trimming
Normalized(title) == Strip(Lower(title))

\* title resolution failed for the n-th key processed: no metadata, or an
\* empty cleaned CachedTitleString
Failed(n) == trail[n].title = << >>

\* the key whose page sits at index i of pages: the last one stored there
OwnerOf(i) == Greatest({ n \in Keys : trail[n].idx = i /\ trail[n].kept })

\* the number of content objects of the page assembled for the n-th key
Count(n) == Len(trail[n].page.objects)

\* the position in the input of the first page-container record of guid
FirstNodePos(guid) ==
    Least({ n \in 1..Len(all_objects) :
              TypeOf(n) = _PAGE_NODE /\ GuidOf(n) = guid })

\* the input positions of the page-metadata records of guid
MetasOf(guid) ==
    { n \in 1..Len(all_objects) : TypeOf(n) = _PAGE_META /\ GuidOf(n) = guid }

\* the input positions of the content records, of any key
ContentRecords == { n \in 1..Len(all_objects) : TypeOf(n) \in _CONTENT_TYPES }

\* s lists exactly the members of S, in increasing order
ListsInOrder(s, S) ==
    /\ \A n \in 1..Len(s) : s[n] \in S
    /\ \A n \in S : \E m \in 1..Len(s) : s[m] = n
    /\ \A m, n \in 1..Len(s) : m < n => s[m] < s[n]

-----------------------------------------------------------------------------
(* C1, C2: pages whose title resolution failed *)

\* C1 (as stated; refuted by the code): in the returned list, two distinct
\* pages whose titles are equal after lower-casing and trimming are both
\* pages whose title resolution failed.
C1_SharedTitleOnlyIfBothFailed ==
    Done =>
        \A i, j \in Slots :
            (i # j /\ Normalized(pages[i].title) = Normalized(pages[j].title))
                => (Failed(OwnerOf(i)) /\ Failed(OwnerOf(j)))

\* C2 (as stated; refuted by the code): with page metadata in the input,
\* every key whose title resolution failed yields its own page titled
\* "Untitled" in the output.
C2_EachFailedKeyKeepsItsPage ==
    (Done /\ PerKey) =>
        \A n \in Keys :
            Failed(n) =>
                \E i \in Slots : OwnerOf(i) = n /\ pages[i].title = Untitled

\* C1 failing state: a page whose title resolution failed and a page with a
\* resolved title stand side by side under one normalized title
C1_Witness ==
    /\ Done
    /\ PerKey
    /\ \E i, j \in Slots :
           /\ i # j
           /\ Normalized(pages[i].title) = Normalized(pages[j].title)
           /\ Failed(OwnerOf(i))
           /\ ~Failed(OwnerOf(j))

\* C2 failing state: title resolution failed for two keys and a single page
\* was returned
C2_Witness ==
    /\ Done
    /\ PerKey
    /\ \E m, n \in Keys : m < n /\ Failed(m) /\ Failed(n)
    /\ Len(pages) = 1
    /\ pages[1].title = Untitled

-----------------------------------------------------------------------------
(* C3: the survivor of deduplication *)

\* the keys whose resolved title has the same normalized form as the n-th's
\* (the empty one when resolution failed): line 245's key
SameTitle(n) ==
    { m \in Keys : Normalized(trail[m].title) = Normalized(trail[n].title) }

\* the earliest-processed key among those of SameTitle(n) with most content
Richest(n) ==
    Least({ m \in SameTitle(n) : \A k \in SameTitle(n) : Count(k) <= Count(m) })

\* the page of the n-th key rebuilt from the input alone: the content records
\* of its guid in input order, the author and time of its first page node,
\* title, level and creation time of the metadata resolved for it
WholeRecordOf(n, page) ==
    LET guid == trail[n].guid
        node == FirstNodePos(guid)
        meta == trail[n].meta
    IN  /\ ListsInOrder(page.objects,
                        { o \in ContentRecords : GuidOf(o) = guid })
        /\ page.author = NodeAuthor(node)
        /\ page.last_modified = NodeLastModified(node)
        /\ page.title = (IF MetaTitle(meta) = << >> THEN Untitled
                         ELSE MetaTitle(meta))
        /\ page.level = MetaLevel(meta)
        /\ page.creation_time = MetaCreation(meta)

\* the keys whose assembled page has the same normalized title as the n-th's
TitleMates(n) ==
    { m \in Keys :
        Normalized(trail[m].page.title) = Normalized(trail[n].page.title) }

\* the earliest-processed key among those of TitleMates(n) with most content
RichestMate(n) ==
    Least({ m \in TitleMates(n) : \A k \in TitleMates(n) : Count(k) <= Count(m) })

\* C3 (as stated; refuted by the code): of the assembled pages that share a
\* normalized title exactly one survives deduplication: the one with the
\* most content objects (the earliest-processed among those tied for the
\* most), as a whole record.
C3_OneSurvivorPerNormalizedTitle ==
    (Done /\ PerKey) =>
        \A n \in Keys :
            /\ Cardinality({ i \in Slots : OwnerOf(i) \in TitleMates(n) }) = 1
            /\ \E i \in Slots :
                   /\ OwnerOf(i) = RichestMate(n)
                   /\ WholeRecordOf(RichestMate(n), pages[i])

\* C3 failing state: the assembled pages of two keys share a normalized
\* title and both are in the returned list
C3_WitnessTwoSurvivors ==
    /\ Done
    /\ \E i, j \in Slots :
           /\ i # j
           /\ OwnerOf(j) \in TitleMates(OwnerOf(i))

\* C3, with the pages grouped by the key line 245 computes (the normalized
\* resolved title, empty when resolution failed) instead of the normalized
\* title of the assembled page: of each group exactly one page survives, the
\* one with the most content objects (the earliest-processed among those
\* tied for the most), as a whole record.
C3_RichestSurvivesWhole ==
    (Done /\ PerKey) =>
        /\ Len(pages) = Cardinality({ Normalized(trail[n].title) : n \in Keys })
        /\ \A n \in Keys :
               \E i \in Slots :
                   /\ OwnerOf(i) = Richest(n)
                   /\ pages[i] = trail[Richest(n)].page
                   /\ WholeRecordOf(Richest(n), pages[i])

\* C3 witness: a later key with more content replaced the earlier page of
\* a key whose resolved title differs from its own only in case
C3_Witness ==
    /\ Done
    /\ \E m, n \in Keys :
           /\ m < n
           /\ ~Failed(m)
           /\ trail[m].title # trail[n].title
           /\ n \in SameTitle(m)
           /\ Count(m) < Count(n)
           /\ Len(pages) = 1
           /\ pages[1] = trail[n].page

\* C3 witness of the tie: of two keys with as many content objects the
\* earlier-processed one survived
C3_WitnessTie ==
    /\ Done
    /\ \E m, n \in Keys :
           /\ m < n
           /\ n \in SameTitle(m)
           /\ Count(m) = Count(n)
           /\ trail[m].page # trail[n].page
           /\ Len(pages) = 1
           /\ pages[1] = trail[m].page

-----------------------------------------------------------------------------
(* C4: orphan metadata *)

\* the orphan pool the n-th key found, and the one it left
PoolBefore(n) == trail[n].pool

PoolAfter(n) == IF n < Len(trail) THEN trail[n + 1].pool ELSE orphan_metas

\* the n-th key has no page-metadata record of its own
Metaless(n) == MetasOf(trail[n].guid) = {}

\* the pool holds the metadata guids that own no page node, each with its
\* last metadata record, in the order in which the guids first appear
PoolIsOrphansInOrder(pool) ==
    /\ \A a \in 1..Len(pool) :
           /\ MetasOf(pool[a].k) # {}
           /\ \A o \in 1..Len(all_objects) :
                  TypeOf(o) = _PAGE_NODE => GuidOf(o) # pool[a].k
           /\ pool[a].v = Greatest(MetasOf(pool[a].k))
    /\ \A a, b \in 1..Len(pool) :
           a < b => Least(MetasOf(pool[a].k)) < Least(MetasOf(pool[b].k))

C4_WitnessOwn ==
    /\ Done
    /\ \E n \in Keys :
           /\ ~Metaless(n)
           /\ Len(PoolBefore(n)) = 1
           /\ PoolAfter(n) = PoolBefore(n)

\* C4 witness of the end-to-end scenario: one metadata-less key, one orphan
C4_WitnessScenario ==
    /\ Done
    /\ Len(trail) = 1
    /\ Metaless(1)
    /\ Len(PoolBefore(1)) = 1
    /\ trail[1].page.title # Untitled
    /\ orphan_metas = << >>

-----------------------------------------------------------------------------
(* C5: the content of a page *)

\* no content record sits in two pages, or twice in one
NoRecordTwice ==
    \A i, j \in Slots :
        \A a \in 1..Len(pages[i].objects) :
            \A b \in 1..Len(pages[j].objects) :
                pages[i].objects[a] = pages[j].objects[b] => (i = j /\ a = b)

\* C5 (as stated; refuted): in every returned list the content records of a
\* page all have one grouping key, the key the page was built for, and no
\* content record appears in two pages.
C5_OneKeyPerPage ==
    Done =>
        /\ \A i \in Slots :
               \A a, b \in 1..Len(pages[i].objects) :
                   GuidOf(pages[i].objects[a]) = GuidOf(pages[i].objects[b])
        /\ PerKey =>
               \A i \in Slots :
                   \A a \in 1..Len(pages[i].objects) :
                       GuidOf(pages[i].objects[a]) = trail[OwnerOf(i)].guid
        /\ NoRecordTwice

\* C5 (amended): when the input holds page metadata, every content record
\* of a returned page has the grouping key the page was built for; when it
\* holds none, the single page holds the content records of every key; in
\* both cases no content record appears in two pages.
C5_OneKeyPerPageWithMetadata ==
    Done =>
        /\ PerKey =>
               \A i \in Slots :
                   /\ pages[i] = trail[OwnerOf(i)].page
                   /\ \A a \in 1..Len(pages[i].objects) :
                          /\ pages[i].objects[a] \in ContentRecords
                          /\ GuidOf(pages[i].objects[a]) = trail[OwnerOf(i)].guid
        /\ ~PerKey =>
               \A i \in Slots : ListsInOrder(pages[i].objects, ContentRecords)
        /\ NoRecordTwice

\* C5 witness: with metadata in the input, a returned page holds content of
\* its own key while the input also holds content of another key
C5_Witness ==
    /\ Done
    /\ PerKey
    /\ \E i \in Slots :
           /\ pages[i].objects # << >>
           /\ \E o \in ContentRecords : GuidOf(o) # trail[OwnerOf(i)].guid

\* C5 witness of the metadata-less path: one page, content of two keys
C5_WitnessNoMetadata ==
    /\ Done
    /\ ~PerKey
    /\ Len(pages) = 1
    /\ \E a, b \in 1..Len(pages[1].objects) :
           GuidOf(pages[1].objects[a]) # GuidOf(pages[1].objects[b])

-----------------------------------------------------------------------------
(* C6: the order of the pages *)

\* C6 (as stated; refuted): for pages P before Q in the returned list, the
\* first page-container record of the key P was built from occurs earlier in
\* the input than that of Q's key, also when P replaced an earlier page.
C6_OrderOfSurvivingKeys ==
    (Done /\ PerKey) =>
        \A i, j \in Slots :
            i < j => FirstNodePos(trail[OwnerOf(i)].guid)
                         < FirstNodePos(trail[OwnerOf(j)].guid)

\* the earliest-processed key with the normalized resolved title of the
\* key whose page sits at index i
FirstOfTitle(i) == Least(SameTitle(OwnerOf(i)))

\* C6 (amended): for pages P before Q in the returned list, the first
\* page-container record of the earliest-processed key with the normalized
\* resolved title of P's key occurs earlier in the input than that of the
\* earliest-processed key with the normalized resolved title of Q's key: a
\* page that replaced an earlier one keeps the position of the page replaced.
C6_OrderOfFirstKeyOfTitle ==
    (Done /\ PerKey) =>
        /\ \A m, n \in Keys :
               m < n => FirstNodePos(trail[m].guid) < FirstNodePos(trail[n].guid)
        /\ \A i, j \in Slots :
               i < j => FirstNodePos(trail[FirstOfTitle(i)].guid)
                            < FirstNodePos(trail[FirstOfTitle(j)].guid)

\* C6 witness: a page with a resolved title that replaced the earlier page
\* of another key with the same normalized resolved title stands before the
\* page of a key whose page-container record occurs earlier in the input
C6_Witness ==
    /\ Done
    /\ PerKey
    /\ \E i, j \in Slots :
           /\ i < j
           /\ FirstOfTitle(i) # OwnerOf(i)
           /\ ~Failed(OwnerOf(i))
           /\ FirstNodePos(trail[OwnerOf(j)].guid)
                  < FirstNodePos(trail[OwnerOf(i)].guid)

-----------------------------------------------------------------------------
(* C7, C8: the metadata-less path and the titles *)

\* C7: with no page-metadata record and N content records, exactly one page
\* is returned when N > 0 and none when N = 0, and the page's objects are
\* the N content records in input order, whatever their keys and whether or
\* not a page-container record is present.
C7_MetadataLessSinglePage ==
    (Done /\ \A n \in 1..Len(all_objects) : TypeOf(n) # _PAGE_META) =>
        IF ContentRecords = {}
        THEN pages = << >>
        ELSE /\ Len(pages) = 1
             /\ Len(pages[1].objects) = Cardinality(ContentRecords)
             /\ ListsInOrder(pages[1].objects, ContentRecords)

\* C7 witness: a page container, a record that is neither content nor
\* metadata and content of two keys were in the input; one page came out
C7_Witness ==
    /\ Done
    /\ \A n \in 1..Len(all_objects) : TypeOf(n) # _PAGE_META
    /\ \E n \in 1..Len(all_objects) : TypeOf(n) = _PAGE_NODE
    /\ \E n \in 1..Len(all_objects) : TypeOf(n) = _TITLE_NODE
    /\ Len(pages) = 1
    /\ Len(pages[1].objects) = 2
    /\ GuidOf(pages[1].objects[1]) # GuidOf(pages[1].objects[2])

\* C7 witness of N = 0: page containers, no content, no page
C7_WitnessEmpty ==
    /\ Done
    /\ Len(all_objects) = 2
    /\ \A n \in 1..Len(all_objects) : TypeOf(n) = _PAGE_NODE
    /\ pages = << >>

\* C8 (as stated; refuted): every returned page, of the per-key path or of
\* the metadata-less path, has a non-empty title.
C8_TitleNeverEmpty ==
    Done => \A i \in Slots : pages[i].title # << >>

\* C8 (amended): every page of the per-key path has a non-empty title, the
\* cleaned cached title of the metadata resolved for its key when that is
\* non-empty and "Untitled" otherwise; the page of the metadata-less path
\* has the empty title.
C8_TitleEmptyOnlyWithoutMetadata ==
    Done =>
        /\ PerKey =>
               \A i \in Slots :
                   LET resolved == MetaTitle(trail[OwnerOf(i)].meta)
                   IN  /\ pages[i].title # << >>
                       /\ pages[i].title =
                              (IF resolved = << >> THEN Untitled ELSE resolved)
        /\ ~PerKey => \A i \in Slots : pages[i].title = << >>

\* C8 witness: the metadata-less path returned its page, with content and
\* the empty title
C8_Witness ==
    /\ Done
    /\ ~PerKey
    /\ Len(pages) = 1
    /\ pages[1].objects # << >>
    /\ pages[1].title = << >>

\* C8 witness of the sentinel: a key without metadata and without an orphan
\* left got the title "Untitled", beside a page with a resolved title
C8_WitnessSentinel ==
    /\ Done
    /\ PerKey
    /\ \E i, j \in Slots :
           /\ trail[OwnerOf(i)].meta = 0
           /\ pages[i].title = Untitled
           /\ MetaTitle(trail[OwnerOf(j)].meta) # << >>
           /\ pages[j].title = MetaTitle(trail[OwnerOf(j)].meta)

-----------------------------------------------------------------------------
(* C9: the level of a page *)

\* C9 (as stated; refuted): every returned page has a non-negative level,
\* whatever the PageLevel property of its metadata holds.
C9_LevelNonNegative ==
    Done => \A i \in Slots : pages[i].level >= 0

\* the PageLevel value of the metadata the page at index i was built from;
\* the default 0 when it had no metadata or the metadata no PageLevel
PageLevelOf(i) ==
    IF ~PerKey \/ trail[OwnerOf(i)].meta = 0 THEN PyInt(0)
    ELSE PropGet(Object(trail[OwnerOf(i)].meta).properties, "PageLevel",
                 PyInt(0))

\* C9 (amended): every returned page has an integer level; it is the
\* PageLevel value itself, negative values included, when that value is an
\* integer, and it is non-negative when the value is a byte blob, a string,
\* absent or of another type.
C9_LevelIntegerNegativeOnlyFromInt ==
    Done =>
        \A i \in Slots :
            /\ pages[i].level \in Int
            /\ PageLevelOf(i).type = "int" => pages[i].level = PageLevelOf(i).val
            /\ PageLevelOf(i).type # "int" => pages[i].level >= 0
            /\ PageLevelOf(i).type \in { "NoneType", "float" } => pages[i].level = 0

\* C9 witness: a page whose level is the negative integer of its PageLevel
C9_Witness ==
    /\ Done
    /\ \E i \in Slots : pages[i].level < 0 /\ PageLevelOf(i).type = "int"

\* C9 witness of the other types: a byte blob longer than four bytes and a
\* string holding "-12" both gave positive levels
C9_WitnessBytesStr ==
    /\ Done
    /\ Len(pages) = 1
    /\ \/ PageLevelOf(1).type = "bytes" /\ pages[1].level = 1
       \/ PageLevelOf(1).type = "str" /\ pages[1].level = 12

====
